---- MODULE Spec2Model ----
(***************************************************************************)
(* Model of the request pipeline of azlo-goboiler (api-service):           *)
(*   - process start-up: the Redis connection loop of main and the         *)
(*     construction of the middleware chain (cmd/api/main.go, router.go);  *)
(*   - the Redis sliding-window limiter (RedisRateLimiter.Allow), one      *)
(*     store command per step, for concurrent requests;                    *)
(*   - the in-memory token-bucket limiter (MemoryRateLimiter);             *)
(*   - one request travelling through RequestID, Recovery, Logging,        *)
(*     Security, Timeout, RateLimit, JWT and the business handler.         *)
(***************************************************************************)
EXTENDS Integers, Sequences, FiniteSets, TLC

(***************************************************************************)
(* Bounds of the model                                                     *)
(***************************************************************************)
\* Number of requests that enter the RateLimit middleware in one behaviour.
MaxReqs == 3
\* Config.RateLimit (RATE_LIMIT, validated to 1..100000 in config.go).
RateLimit == 1
\* Number of times the wall clock is advanced while the process serves.
MaxTicks == 2
\* Number of requests in flight at once while main starts and stops.
MaxInflight == 2
\* The request is followed for this many seconds after it was read.
MaxClock == 31
\* A goroutine that can run is running within this many seconds.
SchedJitter == 1
\* Length of the X-Request-ID values whose JSON rendering is followed.
MaxIdLen == 3
MaxHeaderLen == 3

(***************************************************************************)
(* Program constants                                                       *)
(***************************************************************************)
\* now - 60: the sliding window of RedisRateLimiter.Allow, in seconds.
WindowSecs == 60
\* pipe.Expire(ctx, key, time.Minute*2)
ExpireSecs == 120
\* for attempts := 0; attempts < 5; attempts++   (database connection loop)
DbAttempts == 5
\* if attempts < 4 { sleep; continue }           (database connection loop)
DbRetryGuard == 4
\* for attempts := 0; attempts < 5; attempts++   (Redis connection loop)
RedisAttempts == 5
\* if attempts < 8 { sleep; continue }           (Redis connection loop)
RedisRetryGuard == 8
\* ReadTimeout of the Redis client: a pipeline round trip lasts at most this.
RedisReadTimeoutSecs == 3
\* time.Sleep(time.Minute) in cleanupVisitors
SweepSecs == 60
\* time.Since(v.lastSeen) > 15*time.Minute
IdleSecs == 900

\* router.Use(mw.Timeout(30 * time.Second))
TimeoutSecs == 30
\* WriteTimeout: 15 * time.Second of the http.Server
WriteTimeoutSecs == 15

\* The client whose requests are followed (the key is "rate_limit:" + ip).
Clients == {"10.0.0.1"}
\* Two goroutines serve requests concurrently.
Conns == {"g1", "g2"}

VARIABLES
    \* ---- main: start-up and shutdown ----
    mainPc,        \* position of main
    attempts,      \* loop variable of the connection loop being run
    slept,         \* the last back-off sleep of a connection loop, seconds
    dbUp,          \* environment: is the database reachable right now
    redisUp,       \* environment: is the Redis server reachable right now
    appRedis,      \* app.Redis: "nil" or "client"
    redisPingOk,   \* did the last Ping of the connection loop succeed
    accepting,     \* does the HTTP server accept requests
    inflight,      \* requests being served
    stratUsed,     \* limiter strategies built by RateLimit so far
    dbClosed,      \* app.DB.Close() was called
    redisClosed,   \* app.Redis.Close() was called
    \* ---- Redis limiter ----
    now,           \* wall clock, Unix seconds (time.Now().Unix())
    zsets,         \* the store: key (client ip) -> set of [member, score]
    zexp,          \* the store: key -> time the key expires at, 0 = no TTL
    conn,          \* per serving goroutine: position in RateLimit/Allow
    nreq,          \* number of requests that entered RateLimit so far
    ticks,         \* number of clock advances so far
    burst,         \* per client: the passes of the current instant
    \* ---- in-memory limiter ----
    mclock,        \* wall clock, seconds
    limiters,      \* the MemoryRateLimiter instances built so far
    mreq,          \* number of requests that entered RateLimit so far
    mticks,        \* number of clock advances so far
    mlast,         \* the RateLimit pass that completed last
    mburst,        \* per client: the passes of the current instant
    \* ---- one request in the middleware chain ----
    req,           \* the request: its X-Request-ID header, its route
    gpc,           \* position of the goroutine net/http serves the request on
    wpc,           \* position of the goroutine Timeout starts for downstream
    ctx,           \* request context: key -> value, "" = no value
    header,        \* w.Header(): X-Request-ID and the Security headers
    wire,          \* the underlying http.ResponseWriter: status line and body
    wrapped,       \* Logging's responseWriter: statusCode and size
    logReqID,      \* the local requestID of Logging
    logs,          \* the records written to app.Logger
    elapsed,       \* seconds since the server read the request
    deadline,      \* deadline of the context Timeout derives
    crashed,       \* the process died of a panic no goroutine recovered
    delivered,     \* what the client received when the exchange ended
    trace,         \* history of the request, read by the properties only
    \* ---- the body of a rejection, character by character ----
    jpc,           \* "idle", "ready", "written", "decoded"
    jid,           \* the correlation id of the request, a list of characters
    jstatus,       \* the status of the rejection
    jbody,         \* the body written, from the value of request_id on
    jparsed,       \* what a JSON decoder makes of the body
    \* ---- UserService.Register ----
    users,         \* the rows of auth.users: [username, email, active]
    reg,           \* per caller: position and locals of one Register call
    nreg,          \* number of Register calls so far
    \* ---- getClientIP ----
    ipReq,         \* the request: X-Forwarded-For, X-Real-IP, RemoteAddr
    ipOut          \* what getClientIP returned for it

mainVars == <<mainPc, attempts, slept, dbUp, appRedis, redisPingOk, accepting,
              inflight, stratUsed, dbClosed, redisClosed>>
startVars == <<mainVars, redisUp>>
redisVars == <<now, zsets, zexp, conn, nreq, ticks, burst>>
memVars == <<mclock, limiters, mreq, mticks, mlast, mburst>>
pipeVars == <<req, gpc, wpc, ctx, header, wire, wrapped, logReqID, logs, elapsed,
              deadline, crashed, delivered, trace>>
jsonVars == <<jpc, jid, jstatus, jbody, jparsed>>
regVars == <<users, reg, nreg>>
ipVars == <<ipReq, ipOut>>
vars == <<startVars, redisVars, memVars, pipeVars, jsonVars, regVars, ipVars>>

\* What the actions of one part leave unchanged in the other parts.
restOfMain == <<redisVars, memVars, pipeVars, jsonVars, regVars, ipVars>>
restOfRedis == <<startVars, memVars, pipeVars, jsonVars, regVars, ipVars>>
restOfMem == <<startVars, redisVars, pipeVars, jsonVars, regVars, ipVars>>
restOfPipe == <<startVars, redisVars, memVars, jsonVars, regVars, ipVars>>
restOfJson == <<startVars, redisVars, memVars, pipeVars, regVars, ipVars>>
restOfReg == <<startVars, redisVars, memVars, pipeVars, jsonVars, ipVars>>
restOfIp == <<startVars, redisVars, memVars, pipeVars, jsonVars, regVars>>

NoBurst == [done |-> 0, admitted |-> 0, errs |-> 0]

IdleConn == [pc |-> "idle", ip |-> "", now |-> 0, count |-> 0, pre |-> 0,
             err |-> FALSE, strategy |-> "none", allowed |-> FALSE,
             log |-> "", status |-> 0, next |-> FALSE, nth |-> 0,
             solo |-> TRUE]

(***************************************************************************)
(* main: connection loops, router.Setup, serving, graceful shutdown        *)
(***************************************************************************)
\* time.Sleep(time.Duration(attempts+1) * 2 * time.Second)
BackoffSecs(a) == (a + 1) * 2

\* if attempts < 4 { sleep; continue }; logger.Fatal()
DbRetryAllowed(a) == a < DbRetryGuard

\* if attempts < 8 { sleep; continue }; logger.Fatal()
RedisRetryAllowed(a) == a < RedisRetryGuard

\* One iteration of the database loop: connect, then break/continue/Fatal.
DbConnect ==
    /\ mainPc = "db_connect"
    /\ attempts < DbAttempts
    /\ IF dbUp
       THEN /\ mainPc' = "redis_connect"           \* break
            /\ attempts' = 0
            /\ slept' = 0
       ELSE IF DbRetryAllowed(attempts)
            THEN /\ attempts' = attempts + 1       \* sleep; continue
                 /\ slept' = BackoffSecs(attempts)
                 /\ mainPc' = IF attempts + 1 < DbAttempts
                              THEN "db_connect" ELSE "redis_connect"
            ELSE /\ mainPc' = "fatal"              \* logger.Fatal()
                 /\ UNCHANGED <<attempts, slept>>
    /\ UNCHANGED <<dbUp, redisUp, appRedis, redisPingOk, accepting, inflight,
                   stratUsed, dbClosed, redisClosed, restOfMain>>

\* One iteration of the Redis loop: NewClient, Ping, break/continue/Fatal.
RedisPing ==
    /\ mainPc = "redis_connect"
    /\ attempts < RedisAttempts
    /\ appRedis' = "client"              \* redisClient = redis.NewClient(...)
    /\ redisPingOk' = redisUp
    /\ IF redisUp
       THEN /\ mainPc' = "setup"                   \* break
            /\ UNCHANGED <<attempts, slept>>
       ELSE IF RedisRetryAllowed(attempts)
            THEN /\ attempts' = attempts + 1       \* sleep; continue
                 /\ slept' = BackoffSecs(attempts)
                 /\ mainPc' = IF attempts + 1 < RedisAttempts
                              THEN "redis_connect" ELSE "setup"
            ELSE /\ mainPc' = "fatal"              \* logger.Fatal()
                 /\ UNCHANGED <<attempts, slept>>
    /\ UNCHANGED <<dbUp, redisUp, accepting, inflight, stratUsed, dbClosed,
                   redisClosed, restOfMain>>

\* app.Redis = redisClient; srv.Handler = router.Setup(app); ListenAndServe.
RouterSetup ==
    /\ mainPc = "setup"
    /\ mainPc' = "serving"
    /\ accepting' = TRUE
    /\ attempts' = 0                     \* the loop variable is out of scope
    /\ slept' = 0
    /\ UNCHANGED <<dbUp, redisUp, appRedis, redisPingOk, inflight, stratUsed,
                   dbClosed, redisClosed, restOfMain>>

\* Environment: the database or the Redis server goes away or comes back.
DbDown ==
    /\ dbUp
    /\ mainPc \in {"db_connect"}
    /\ dbUp' = FALSE
    /\ UNCHANGED <<mainPc, attempts, slept, redisUp, appRedis, redisPingOk,
                   accepting, inflight, stratUsed, dbClosed, redisClosed, restOfMain>>

DbBack ==
    /\ ~dbUp
    /\ mainPc \in {"db_connect"}
    /\ dbUp' = TRUE
    /\ UNCHANGED <<mainPc, attempts, slept, redisUp, appRedis, redisPingOk,
                   accepting, inflight, stratUsed, dbClosed, redisClosed, restOfMain>>

RedisDown ==
    /\ redisUp
    /\ mainPc \in {"redis_connect", "setup", "serving"}
    /\ redisUp' = FALSE
    /\ UNCHANGED <<mainVars, restOfMain>>

RedisBack ==
    /\ ~redisUp
    /\ mainPc \in {"redis_connect", "setup", "serving"}
    /\ redisUp' = TRUE
    /\ UNCHANGED <<mainVars, restOfMain>>

(***************************************************************************)
(* Middleware.RateLimit and RedisRateLimiter.Allow                         *)
(***************************************************************************)
\* if mw.app.Redis != nil { redisLimiter = ... } else { memoryLimiter = ... }
ChooseStrategy(redis) == IF redis # "nil" THEN "redis" ELSE "memory"

\* ZREMRANGEBYSCORE key 0 windowStart: drops the scores in [0, windowStart].
ZRemRangeByScore(z, lo, hi) == {e \in z : ~(lo <= e.score /\ e.score <= hi)}

\* ZCARD key
ZCard(z) == Cardinality(z)

\* ZADD key score member: a member already present only gets its score updated.
ZAdd(z, score, member) ==
    {e \in z : e.member # member} \cup {[member |-> member, score |-> score]}

\* A limiter that admits only while the count is below the limit.
CountAllowsStrict(count, rate) == count < rate

\* return count <= int64(rl.rate)
CountAllows(count, rate) == count <= rate

\* A limiter that fails closed when the store errors.
AllowOnErrorClosed == FALSE

\* The error branch of Allow: return true (fail open).
AllowOnError == TRUE

InFlight(c) == conn[c].pc # "idle"

\* A request reaches the RateLimit middleware: the limiter is built, the
\* client ip and the time are read and the four commands are queued.
RateLimitEnter(c, ip) ==
    /\ mainPc = "serving"
    /\ ~InFlight(c)
    /\ nreq < MaxReqs
    /\ ChooseStrategy(appRedis) = "redis"
    /\ nreq' = nreq + 1
    /\ conn' = [o \in Conns |->
                  IF o = c
                  THEN [IdleConn EXCEPT
                          !.pc = "zrem", !.ip = ip, !.now = now,
                          !.strategy = ChooseStrategy(appRedis),
                          \* no other pass is under way (used by the claims)
                          !.solo = \A x \in Conns \ {c} : ~InFlight(x)]
                  ELSE IF InFlight(o) THEN [conn[o] EXCEPT !.solo = FALSE]
                  ELSE conn[o]]
    /\ UNCHANGED <<restOfRedis, now, zsets, zexp, ticks, burst>>

\* The connection to the store breaks while the pipeline is executed.
PipeFail(c) ==
    /\ conn[c].pc \in {"zrem", "zcard", "zadd", "expire"}
    /\ ~redisUp
    /\ conn' = [conn EXCEPT ![c].pc = "reply", ![c].err = TRUE]
    /\ UNCHANGED <<restOfRedis, now, zsets, zexp, nreq, ticks, burst>>

\* pipe.ZRemRangeByScore(ctx, key, "0", strconv.FormatInt(windowStart, 10))
PipeZRem(c) ==
    /\ conn[c].pc = "zrem"
    /\ redisUp
    /\ zsets' = [zsets EXCEPT ![conn[c].ip] =
                   ZRemRangeByScore(@, 0, conn[c].now - WindowSecs)]
    /\ conn' = [conn EXCEPT ![c].pc = "zcard"]
    /\ UNCHANGED <<restOfRedis, now, zexp, nreq, ticks, burst>>

\* countCmd := pipe.ZCard(ctx, key)
PipeZCard(c) ==
    /\ conn[c].pc = "zcard"
    /\ redisUp
    /\ conn' = [conn EXCEPT
                  ![c].pc = "zadd",
                  ![c].count = ZCard(zsets[conn[c].ip]),
                  \* the entries of the client's window at this moment
                  ![c].pre = Cardinality({e \in zsets[conn[c].ip] :
                                            e.score > conn[c].now - WindowSecs})]
    /\ UNCHANGED <<restOfRedis, now, zsets, zexp, nreq, ticks, burst>>

\* pipe.ZAdd(ctx, key, &redis.Z{Score: float64(now), Member: now})
PipeZAdd(c) ==
    /\ conn[c].pc = "zadd"
    /\ redisUp
    /\ zsets' = [zsets EXCEPT ![conn[c].ip] = ZAdd(@, conn[c].now, conn[c].now)]
    /\ conn' = [conn EXCEPT ![c].pc = "expire"]
    /\ UNCHANGED <<restOfRedis, now, zexp, nreq, ticks, burst>>

\* pipe.Expire(ctx, key, time.Minute*2)
PipeExpire(c) ==
    /\ conn[c].pc = "expire"
    /\ redisUp
    /\ zexp' = [zexp EXCEPT ![conn[c].ip] =
                  IF zsets[conn[c].ip] = {} THEN 0 ELSE now + ExpireSecs]
    /\ conn' = [conn EXCEPT ![c].pc = "reply"]
    /\ UNCHANGED <<restOfRedis, now, zsets, nreq, ticks, burst>>

\* pipe.Exec returned: Allow decides, RateLimit answers 429 or calls next.
\* burst counts, per client, the passes that read the current time.Now().Unix().
AllowReturn(c) ==
    /\ conn[c].pc = "reply"
    /\ LET allowed == IF conn[c].err THEN AllowOnError
                      ELSE CountAllows(conn[c].count, RateLimit)
           ip == conn[c].ip
           cur == conn[c].now = now
       IN /\ conn' = [conn EXCEPT
                        ![c].pc = "done",
                        ![c].allowed = allowed,
                        ![c].log = IF conn[c].err
                                   THEN "Redis rate limiter failed, allowing request"
                                   ELSE IF ~allowed THEN "Rate limit exceeded"
                                   ELSE "",
                        ![c].status = IF allowed THEN 0 ELSE 429,
                        ![c].next = allowed,
                        ![c].nth = IF cur THEN burst[ip].done + 1 ELSE 0]
          /\ burst' = IF cur
                      THEN [burst EXCEPT ![ip] =
                              [done |-> @.done + 1,
                               admitted |-> @.admitted + (IF allowed THEN 1 ELSE 0),
                               errs |-> @.errs + (IF conn[c].err THEN 1 ELSE 0)]]
                      ELSE burst
    /\ UNCHANGED <<restOfRedis, now, zsets, zexp, nreq, ticks>>

\* The middleware function returns; the goroutine serves the next request.
RateLimitLeave(c) ==
    /\ conn[c].pc = "done"
    /\ conn' = [conn EXCEPT ![c] = IdleConn]
    /\ UNCHANGED <<restOfRedis, now, zsets, zexp, nreq, ticks, burst>>

\* Time passes; keys past their TTL are dropped by the store.  A pipeline
\* round trip is bounded by the client's read timeout.
Tick(d) ==
    /\ mainPc = "serving"
    /\ ticks < MaxTicks
    /\ ticks' = ticks + 1
    /\ \A c \in Conns : InFlight(c) => now + d - conn[c].now <= RedisReadTimeoutSecs
    /\ now' = now + d
    /\ zsets' = [k \in Clients |->
                   IF zexp[k] # 0 /\ zexp[k] <= now + d THEN {} ELSE zsets[k]]
    /\ zexp' = [k \in Clients |->
                   IF zexp[k] # 0 /\ zexp[k] <= now + d THEN 0 ELSE zexp[k]]
    /\ burst' = [k \in Clients |-> NoBurst]
    /\ UNCHANGED <<restOfRedis, conn, nreq>>

TickSteps == {1, WindowSecs - 1}

(***************************************************************************)
(* MemoryRateLimiter: the in-process token bucket per client ip            *)
(***************************************************************************)
\* NewMemoryRateLimiter(mw.app.Config.RateLimit, mw.app.Config.RateLimit*2)
Burst(rps) == rps * 2

NoMemPass == [ip |-> "", at |-> 0, allowed |-> FALSE, status |-> 0, nth |-> 0,
              after |-> 0, limiter |-> 0]

NoMemBurst == [done |-> 0, admitted |-> 0, refilled |-> 0]

NoVisitor == [present |-> FALSE, tokens |-> 0, last |-> 0, lastSeen |-> 0]

\* NewMemoryRateLimiter: an empty visitors map and its sweep goroutine,
\* which first sleeps a minute.
NewMemoryRateLimiter(t) ==
    [visitors |-> [k \in Clients |-> NoVisitor], nextSweep |-> t + SweepSecs]

Min(a, b) == IF a < b THEN a ELSE b

\* rate.Limiter.advance: the tokens of the bucket at time t.
TokensAt(v, t, rps) == Min(Burst(rps), v.tokens + (t - v.last) * rps)

\* getLimiter: the visitor of ip is created with a full bucket, or its
\* lastSeen is refreshed.
GetLimiter(lim, ip, t, rps) ==
    IF ~lim.visitors[ip].present
    THEN [present |-> TRUE, tokens |-> Burst(rps), last |-> t, lastSeen |-> t]
    ELSE [lim.visitors[ip] EXCEPT !.lastSeen = t]

\* rate.Limiter.Allow: one token is taken if there is one.
BucketAllows(v, t, rps) == TokensAt(v, t, rps) >= 1

BucketAfterAllow(v, t, rps) ==
    IF BucketAllows(v, t, rps)
    THEN [v EXCEPT !.tokens = TokensAt(v, t, rps) - 1, !.last = t]
    ELSE v

\* router.Use(mw.RateLimit): mux wraps the matched handler in the middleware
\* functions when it matches a request, so RateLimit(next) runs, and builds
\* its limiter, once per matched request: the request is checked against
\* the instance built for it.
LimiterIndexForRequest(lims) == Len(lims) + 1

\* A request passes RateLimit with app.Redis == nil: the limiter is built,
\* the bucket of the client ip is looked up and asked for one token.
MemRateLimit(ip) ==
    /\ mainPc = "serving"
    /\ ChooseStrategy(appRedis) = "memory"
    /\ mreq < MaxReqs
    /\ mreq' = mreq + 1
    /\ LET i == LimiterIndexForRequest(limiters)
           lims == IF i > Len(limiters)
                   THEN Append(limiters, NewMemoryRateLimiter(mclock))
                   ELSE limiters
           v == GetLimiter(lims[i], ip, mclock, RateLimit)
           allowed == BucketAllows(v, mclock, RateLimit)
       IN /\ limiters' = [lims EXCEPT ![i].visitors[ip] =
                            BucketAfterAllow(v, mclock, RateLimit)]
          /\ mlast' = [ip |-> ip, at |-> mclock, allowed |-> allowed,
                       status |-> IF allowed THEN 0 ELSE 429,
                       nth |-> mburst[ip].done + 1,
                       after |-> mburst[ip].refilled,
                       limiter |-> i]
          /\ mburst' = [mburst EXCEPT ![ip] =
                          [done |-> @.done + 1,
                           admitted |-> @.admitted + (IF allowed THEN 1 ELSE 0),
                           refilled |-> IF @.refilled = 0 THEN 0
                                        ELSE @.refilled + 1]]
    /\ UNCHANGED <<restOfMem, mclock, mticks>>

IdleTooLongAfterOneSweep(idle) == idle >= SweepSecs

\* time.Since(v.lastSeen) > 15*time.Minute
IdleTooLong(idle) == idle > IdleSecs

\* cleanupVisitors of one instance wakes up: visitors idle for more than
\* 15 minutes are deleted, then it sleeps another minute.
CleanupVisitors(i) ==
    /\ i \in 1..Len(limiters)
    /\ mclock >= limiters[i].nextSweep
    /\ limiters' = [limiters EXCEPT
          ![i].visitors = [k \in Clients |->
                             IF @[k].present
                                /\ IdleTooLong(mclock - @[k].lastSeen)
                             THEN NoVisitor ELSE @[k]],
          ![i].nextSweep = mclock + SweepSecs]
    /\ UNCHANGED <<restOfMem, mclock, mreq, mticks, mlast, mburst>>

\* Time passes.
MemTick(d) ==
    /\ mainPc = "serving"
    /\ mticks < MaxTicks
    /\ mticks' = mticks + 1
    /\ mclock' = mclock + d
    \* the passes of the new instant; refilled says a burst was spent and at
    \* least one full second has passed since
    /\ mburst' = [k \in Clients |->
                    [done |-> 0, admitted |-> 0,
                     refilled |-> IF mburst[k].done >= Burst(RateLimit)
                                     \/ mburst[k].refilled > 0
                                  THEN 1 ELSE 0]]
    /\ UNCHANGED <<restOfMem, limiters, mreq, mlast>>

MemTickSteps == {1, SweepSecs, IdleSecs}

(***************************************************************************)
(* One request through RequestID, Recovery, Logging, Security, Timeout,    *)
(* RateLimit, JWT and the business handler                                 *)
(***************************************************************************)
\* A context key matches on its type and its value: the untyped string
\* "request_id" and config.RequestIDKey = ContextKey("request_id") differ.
StringKey == "string:request_id"
TypedKey == "config.ContextKey:request_id"
\* config.UserIDKey = ContextKey("userID")
UserIDKey == "config.ContextKey:userID"
CtxKeys == {StringKey, TypedKey, UserIDKey}

\* context.WithValue(r.Context(), "request_id", requestID)
RequestIDStoreKey == StringKey

GetRequestIDKeyTyped == TypedKey

\* ctx.Value("request_id") in getRequestID
GetRequestIDKey == StringKey

\* getRequestID: the value under the key if there is one, else "unknown".
getRequestID(c) == IF c[GetRequestIDKey] # "" THEN c[GetRequestIDKey] ELSE "unknown"

\* ctx.Value(config.RequestIDKey) in getRequestID of package handlers
HandlersRequestIDKey == TypedKey

\* handlers.getRequestID: the value under the typed key if there is one,
\* else "unknown".
handlersGetRequestID(c) ==
    IF c[HandlersRequestIDKey] # "" THEN c[HandlersRequestIDKey] ELSE "unknown"

\* uuid.New().String()
GeneratedIds == {"uuid-1", "uuid-2"}
\* Values of the X-Request-ID request header; "" = the header is absent.
ClientIds == {"", "client-7"}
\* Status codes the business handler answers with.
HandlerCodes == {200, 399, 400, 499, 500}
\* Outcomes of the token check of JWT.
JwtVerdicts == {"ok", "missing", "expired", "invalid"}

(***************************************************************************)
(* The token check of JWT: jwt.ParseWithClaims of golang-jwt/jwt/v5        *)
(***************************************************************************)
\* mw.app.Config.App_Secret
AppSecret == "app-secret"
Secrets == {AppSecret, "other-secret"}
\* The alg of the token header.
Algs == {"HS256", "RS256", "none"}

IsHMACOrNone(alg) == alg \in {"HS256", "HS384", "HS512", "none"}

\* token.Method.(*jwt.SigningMethodHMAC) in the key function
IsHMAC(alg) == alg \in {"HS256", "HS384", "HS512"}

\* Unix time at which the server read the request.
StartTime == 100

NoToken == [present |-> FALSE, malformed |-> FALSE, alg |-> "", key |-> "",
            hasExp |-> FALSE, exp |-> 0, sub |-> ""]
MalformedToken == [NoToken EXCEPT !.present = TRUE, !.malformed = TRUE]

\* The exp claim around the verification time; hasExp = FALSE: no exp claim.
Tokens ==
    {MalformedToken} \cup
    { [present |-> TRUE, malformed |-> FALSE, alg |-> a, key |-> k,
       hasExp |-> h, exp |-> IF h THEN e ELSE 0, sub |-> "user-1"] :
         a \in Algs, k \in Secrets, h \in BOOLEAN,
         e \in {StartTime - 1, StartTime, StartTime + 1} }

\* What Handlers.Auth issues: HS256 with the application secret and an exp.
GoodToken == [present |-> TRUE, malformed |-> FALSE, alg |-> "HS256",
              key |-> AppSecret, hasExp |-> TRUE, exp |-> StartTime + 1,
              sub |-> "user-1"]

\* The credentials of a request: the jwt_token cookie and the bearer token
\* of the Authorization header.
NoCred == [cookie |-> NoToken, bearer |-> NoToken]
Credentials == [cookie : Tokens \cup {NoToken}, bearer : {NoToken, GoodToken}]

\* The exp check of the v5 validator: a token without exp passes (no
\* WithExpirationRequired), a token with exp passes while now is before exp.
ExpiryPasses(tok, t) == ~tok.hasExp \/ t < tok.exp

\* jwt.ParseWithClaims, v5: the token is split and decoded, the key function
\* is called, the signature is verified, and only then the claims are
\* validated.  The result is the error, "nil" if there is none.
ParseWithClaims(tok, t) ==
    IF tok.malformed THEN "malformed"
    ELSE IF ~IsHMAC(tok.alg) THEN "unverifiable"
    ELSE IF tok.key # AppSecret THEN "signature_invalid"
    ELSE IF ~ExpiryPasses(tok, t) THEN "expired"
    ELSE "nil"

\* The transport JWT reads the token from: r.Cookie("jwt_token").
TokenOf(cred) == cred.cookie

\* The branches of JWT: no cookie, errors.Is(err, jwt.ErrTokenExpired),
\* any other error, or the token is accepted.
JwtVerdict(cred, t) ==
    IF ~TokenOf(cred).present THEN "missing"
    ELSE LET err == ParseWithClaims(TokenOf(cred), t)
         IN IF err = "nil" THEN "ok"
            ELSE IF err = "expired" THEN "expired"
            ELSE "invalid"

JwtCallsNextAlways(verdict) == TRUE

\* next.ServeHTTP is reached only past every return of JWT.
JwtCallsNext(verdict) == verdict = "ok"

NoRequest == [xRequestID |-> "", protected |-> FALSE]
\* The headers Security sets, with their values.
SecurityHeaders ==
    ("X-Content-Type-Options" :> "nosniff") @@
    ("X-Frame-Options" :> "DENY") @@
    ("X-XSS-Protection" :> "1; mode=block") @@
    ("Strict-Transport-Security" :> "max-age=63072000; includeSubDomains; preload") @@
    ("Referrer-Policy" :> "strict-origin-when-cross-origin") @@
    ("Permissions-Policy" :> "camera=(), microphone=(), geolocation=()") @@
    ("Content-Security-Policy" :> "default-src 'self'; script-src 'self'; style-src 'self' 'unsafe-inline'; img-src 'self' data:; font-src 'self'; connect-src 'self'; frame-ancestors 'none'") @@
    ("Server" :> "")

\* http.Header: each name has a list of values, empty = the name is absent.
NoSecurity == [n \in DOMAIN SecurityHeaders |-> <<>>]

AddSecurityHeaders(h) == [n \in DOMAIN h |-> Append(h[n], SecurityHeaders[n])]

\* w.Header().Set(name, value) for each of them: the value replaces the list.
SetSecurityHeaders(h) == [n \in DOMAIN h |-> <<SecurityHeaders[n]>>]

NoHeader == [xRequestID |-> "", security |-> NoSecurity, contentType |-> ""]
NoWire == [status |-> 0, body |-> <<>>]
NothingDelivered == [received |-> FALSE, status |-> 0, body |-> <<>>, xRequestID |-> ""]
NoTrace == [assigned |-> "", faulted |-> FALSE, handlerWrote |-> FALSE,
            returnedAt |-> -1, wireAtReturn |-> NoWire,
            guardWrites |-> 0, guardAt |-> -1, downstreamDone |-> FALSE,
            lateWrites |-> 0, cred |-> NoCred, verdict |-> "none",
            handlerEntered |-> FALSE, entered |-> <<>>, replies |-> {},
            enteredAfter |-> {}]

\* The stage whose function has been called is added to the history of the
\* request.
Enter(t, stage) ==
    [t EXCEPT !.entered = Append(@, stage),
              !.enteredAfter = @ \cup {<<r.by, stage>> : r \in t.replies}]

\* http.ResponseWriter.WriteHeader: the first status code is the one sent, a
\* later call is superfluous and changes nothing.
WriteHeader(w, code) == IF w.status = 0 THEN [w EXCEPT !.status = code] ELSE w

\* http.ResponseWriter.Write: sends the header with 200 if none was sent.
Write(w, b) == [status |-> IF w.status = 0 THEN 200 ELSE w.status,
                body |-> Append(w.body, b)]

\* {"success":false,"error":"<message>","request_id":"<id>"}
Envelope(message, id) == [success |-> FALSE, error |-> message, request_id |-> id]

\* What a business handler writes.
HandlerBody == [success |-> TRUE, error |-> "", request_id |-> ""]

\* writeJSONError on the underlying writer.
writeJSONError(w, status, message, id) ==
    Write(WriteHeader(w, status), Envelope(message, id))

\* responseWriter.WriteHeader and responseWriter.Write: every WriteHeader
\* overwrites statusCode, every Write adds to size.
WrappedAfter(rw, code) == [statusCode |-> code, size |-> rw.size + 1]

LogLevelNoError(status) == IF status >= 400 THEN "warn" ELSE "info"

\* The level of the access-log record.
LogLevel(status) ==
    IF status >= 400 THEN (IF status >= 500 THEN "error" ELSE "warn") ELSE "info"

LogRecord(level, msg, id, status) ==
    [level |-> level, msg |-> msg, request_id |-> id, status |-> status]

AccessLogMsg == "HTTP request processed"

\* The goroutine the deferred recover() of Recovery runs on, and the one
\* everything after Timeout runs on ("go func() { next.ServeHTTP(w, r) ... }").
RecoveryGoroutine == "server"
DownstreamGoroutine == "worker"

\* recover() stops a panic only on the goroutine whose stack it is deferred on.
RecoverCatches(panicking) == panicking = RecoveryGoroutine

\* mux matched a route: net/http calls the chain on the connection goroutine.
ServeHTTP(id, prot) ==
    /\ gpc = "idle"
    /\ mainPc = "serving"
    /\ req' = [xRequestID |-> id, protected |-> prot]
    /\ gpc' = "RequestID"
    /\ UNCHANGED <<restOfPipe, wpc, ctx, header, wire, wrapped, logReqID, logs,
                   elapsed, deadline, crashed, delivered, trace>>

RequestID ==
    /\ gpc = "RequestID"
    /\ \E fresh \in GeneratedIds :
         LET requestID == IF req.xRequestID # "" THEN req.xRequestID ELSE fresh
         IN /\ ctx' = [ctx EXCEPT ![RequestIDStoreKey] = requestID]
            /\ header' = [header EXCEPT !.xRequestID = requestID]
            /\ trace' = Enter([trace EXCEPT !.assigned = requestID],
                               "RequestID")
    /\ gpc' = "Recovery"
    /\ UNCHANGED <<restOfPipe, req, wpc, wire, wrapped, logReqID, logs, elapsed,
                   deadline, crashed, delivered>>

\* Recovery registers its deferred function and calls next.
Recovery ==
    /\ gpc = "Recovery"
    /\ gpc' = "Logging"
    /\ trace' = Enter(trace, "Recovery")
    /\ UNCHANGED <<restOfPipe, req, wpc, ctx, header, wire, wrapped, logReqID,
                   logs, elapsed, deadline, crashed, delivered>>

\* Logging before next: requestID and the wrapped writer.
Logging ==
    /\ gpc = "Logging"
    /\ logReqID' = getRequestID(ctx)
    /\ wrapped' = [statusCode |-> 200, size |-> 0]
    /\ gpc' = "Security"
    /\ trace' = Enter(trace, "Logging")
    /\ UNCHANGED <<restOfPipe, req, wpc, ctx, header, wire, logs, elapsed,
                   deadline, crashed, delivered>>

Security ==
    /\ gpc = "Security"
    /\ header' = [header EXCEPT !.security = SetSecurityHeaders(@)]
    /\ gpc' = "Timeout"
    /\ trace' = Enter(trace, "Security")
    /\ UNCHANGED <<restOfPipe, req, wpc, ctx, wire, wrapped, logReqID, logs,
                   elapsed, deadline, crashed, delivered>>

\* Timeout: context.WithTimeout, the goroutine for next, then the select.
Timeout ==
    /\ gpc = "Timeout"
    /\ deadline' = elapsed + TimeoutSecs
    /\ wpc' = "go"
    /\ gpc' = "select"
    /\ trace' = Enter(trace, "Timeout")
    /\ UNCHANGED <<restOfPipe, req, ctx, header, wire, wrapped, logReqID, logs,
                   elapsed, crashed, delivered>>

\* next.ServeHTTP returned on the worker goroutine: it goes on to "done <- true".
Returned(w) == [trace EXCEPT !.returnedAt = elapsed, !.wireAtReturn = w]

\* A stage that rejects notes in the history of the request what it passed
\* to writeJSONError.
Reject(t, stage, status, message, id) ==
    [t EXCEPT !.replies = @ \cup {[by |-> stage, status |-> status,
                                   error |-> message, request_id |-> id]}]

\* The worker goroutine runs next.ServeHTTP: RateLimit is entered and calls
\* limiter.Allow(clientIP).
RateLimitCall ==
    /\ ~crashed
    /\ wpc = "go"
    /\ wpc' = "RateLimit"
    /\ trace' = Enter(trace, "RateLimit")
    /\ UNCHANGED <<restOfPipe, req, gpc, ctx, header, wire, wrapped, logReqID,
                   logs, elapsed, deadline, crashed, delivered>>

RateLimitCallsNextAlways(allowed) == TRUE

\* RateLimit calls next only if the limiter allowed the request.
RateLimitCallsNext(allowed) == allowed

\* RateLimit with the verdict of the limiter: 429 and return, or next.  A
\* write after the server has finished the exchange reaches nobody.
RateLimitStage(allowed) ==
    /\ ~crashed
    /\ wpc = "RateLimit"
    /\ IF allowed
       THEN UNCHANGED <<header, wire, wrapped, logs>>
       ELSE /\ logs' = Append(logs, LogRecord("warn", "Rate limit exceeded",
                                              getRequestID(ctx), 0))
            /\ header' = IF gpc = "finished" THEN header
                         ELSE [header EXCEPT !.contentType = "application/json"]
            /\ wire' = IF gpc = "finished" THEN wire
                       ELSE writeJSONError(wire, 429, "Rate limit exceeded",
                                           getRequestID(ctx))
            /\ wrapped' = WrappedAfter(wrapped, 429)
    /\ LET seen == IF allowed THEN trace ELSE Reject(trace, "RateLimit", 429,
                                                 "Rate limit exceeded",
                                                 getRequestID(ctx))
       IN IF RateLimitCallsNext(allowed)
          THEN /\ wpc' = IF req.protected THEN "JWT" ELSE "handler"
               /\ trace' = IF req.protected THEN Enter(seen, "JWT")
                            ELSE Enter([seen EXCEPT !.handlerEntered = TRUE],
                                       "handler")
          ELSE /\ wpc' = "send"
               /\ trace' = [seen EXCEPT !.returnedAt = elapsed,
                                        !.wireAtReturn = wire']
    /\ UNCHANGED <<restOfPipe, req, gpc, ctx, logReqID, elapsed, deadline,
                   crashed, delivered>>

JwtMessage(verdict) ==
    CASE verdict = "missing" -> "Auth cookie required"
      [] verdict = "expired" -> "Token has expired"
      [] OTHER -> "Invalid token"

\* JWT on the credentials of the request: 401 and return, or the subject
\* in the context and next.
JWT(cred) ==
    /\ ~crashed
    /\ wpc = "JWT"
    /\ LET verdict == JwtVerdict(cred, StartTime + elapsed)
           seen == [trace EXCEPT !.cred = cred, !.verdict = verdict]
       IN IF JwtCallsNext(verdict)
          THEN /\ ctx' = [ctx EXCEPT ![UserIDKey] = TokenOf(cred).sub]
               /\ wpc' = "handler"
               /\ trace' = Enter([seen EXCEPT !.handlerEntered = TRUE],
                                 "handler")
               /\ UNCHANGED <<header, wire, wrapped, logs>>
          ELSE /\ logs' = Append(logs, LogRecord("warn", JwtMessage(verdict),
                                                 getRequestID(ctx), 0))
               /\ header' = IF gpc = "finished" THEN header
                            ELSE [header EXCEPT
                                     !.contentType = "application/json"]
               /\ wire' = IF gpc = "finished" THEN wire
                          ELSE writeJSONError(wire, 401, JwtMessage(verdict),
                                              getRequestID(ctx))
               /\ wrapped' = WrappedAfter(wrapped, 401)
               /\ trace' = [Reject(seen, "JWT", 401, JwtMessage(verdict),
                                   getRequestID(ctx))
                               EXCEPT !.returnedAt = elapsed,
                                      !.wireAtReturn = wire']
               /\ wpc' = "send"
               /\ UNCHANGED ctx
    /\ UNCHANGED <<restOfPipe, req, gpc, logReqID, elapsed, deadline,
                   crashed, delivered>>

\* The record a business handler logs about the request, with the request
\* id it read with handlers.getRequestID.
HandlerLogMsg == "handler"

\* The business handler writes its response; once the server has finished
\* the exchange the write reaches nobody.
HandlerRespond(code) ==
    /\ ~crashed
    /\ wpc = "handler"
    /\ ~trace.handlerWrote
    /\ logs' = Append(logs, LogRecord(LogLevel(code), HandlerLogMsg,
                                      handlersGetRequestID(ctx), code))
    /\ wrapped' = WrappedAfter(wrapped, code)
    /\ IF gpc = "finished"
       THEN /\ trace' = [trace EXCEPT !.handlerWrote = TRUE,
                                      !.lateWrites = @ + 1]
            /\ UNCHANGED <<wire, header>>
       ELSE /\ trace' = [trace EXCEPT !.handlerWrote = TRUE]
            /\ header' = [header EXCEPT !.contentType = "application/json"]
            /\ wire' = Write(WriteHeader(wire, code), HandlerBody)
    /\ UNCHANGED <<restOfPipe, req, gpc, wpc, ctx, logReqID, elapsed,
                   deadline, crashed, delivered>>

HandlerReturn ==
    /\ ~crashed
    /\ wpc = "handler"
    /\ wpc' = "send"
    /\ trace' = Returned(wire)
    /\ UNCHANGED <<restOfPipe, req, gpc, ctx, header, wire, wrapped, logReqID,
                   logs, elapsed, deadline, crashed, delivered>>

\* The business handler panics.  The panic unwinds the stack of the
\* goroutine it was raised on; if no deferred recover() is on that stack
\* the Go runtime ends the process.
HandlerPanic ==
    /\ ~crashed
    /\ wpc = "handler"
    /\ trace' = [trace EXCEPT !.faulted = TRUE]
    /\ IF RecoverCatches(DownstreamGoroutine)
       THEN \* the deferred function of Recovery, on the writer it was given
            /\ logs' = Append(logs, LogRecord("error", "Panic recovered",
                                              getRequestID(ctx), 500))
            /\ header' = [header EXCEPT !.contentType = "application/json"]
            /\ wire' = writeJSONError(wire, 500, "Internal server error",
                                      getRequestID(ctx))
            /\ gpc' = "finish"
            /\ wpc' = "exited"
            /\ UNCHANGED crashed
       ELSE /\ crashed' = TRUE
            /\ wpc' = "panicked"
            /\ UNCHANGED <<logs, header, wire, gpc>>
    /\ UNCHANGED <<restOfPipe, req, ctx, wrapped, logReqID, elapsed, deadline,
                   delivered>>

\* select, case <-done: the worker's send and the guard's receive meet.
SelectDone ==
    /\ ~crashed
    /\ gpc = "select"
    /\ wpc = "send"
    /\ wpc' = "exited"
    /\ gpc' = "LoggingPost"
    /\ UNCHANGED <<restOfPipe, req, ctx, header, wire, wrapped, logReqID, logs,
                   elapsed, deadline, crashed, delivered, trace>>

WorkerStoppedByTimeout(w) == "exited"

\* The guard returns from the select; cancel() ends the context, nothing
\* ends the goroutine that runs next.ServeHTTP.
WorkerAfterTimeout(w) == w

\* select, case <-ctx.Done(): the warning and the 408 envelope.
SelectTimeout ==
    /\ ~crashed
    /\ gpc = "select"
    /\ elapsed >= deadline
    /\ logs' = Append(logs, LogRecord("warn", "Request timeout",
                                      getRequestID(ctx), 0))
    /\ header' = [header EXCEPT !.contentType = "application/json"]
    /\ wire' = writeJSONError(wire, 408, "Request timeout", getRequestID(ctx))
    /\ wrapped' = WrappedAfter(wrapped, 408)
    /\ trace' = [Reject(trace, "Timeout", 408, "Request timeout",
                        getRequestID(ctx)) EXCEPT
                     !.guardWrites = @ + 1, !.guardAt = elapsed,
                     !.downstreamDone = (wpc = "send")]
    /\ gpc' = "LoggingPost"
    /\ wpc' = WorkerAfterTimeout(wpc)
    /\ UNCHANGED <<restOfPipe, req, ctx, logReqID, elapsed, deadline,
                   crashed, delivered>>

\* Logging after next returned: the access-log record.  Recovery's deferred
\* function then finds nothing to recover.
LoggingPost ==
    /\ ~crashed
    /\ gpc = "LoggingPost"
    /\ logs' = Append(logs, LogRecord(LogLevel(wrapped.statusCode), AccessLogMsg,
                                      logReqID, wrapped.statusCode))
    /\ gpc' = "finish"
    /\ UNCHANGED <<restOfPipe, req, wpc, ctx, header, wire, wrapped, logReqID,
                   elapsed, deadline, crashed, delivered, trace>>

\* The write deadline of the connection is WriteTimeout after the request
\* was read; what is written to the connection later is lost.
WriteDeadlinePassed(t) == t >= WriteTimeoutSecs

\* The chain returned to net/http, which sends the buffered response: the
\* client gets it unless the write deadline of the connection has passed.
FinishRequest ==
    /\ ~crashed
    /\ gpc = "finish"
    /\ delivered' = IF WriteDeadlinePassed(elapsed)
                    THEN NothingDelivered
                    ELSE [received |-> TRUE,
                          status |-> IF wire.status = 0 THEN 200 ELSE wire.status,
                          body |-> wire.body,
                          xRequestID |-> header.xRequestID]
    /\ gpc' = "finished"
    /\ UNCHANGED <<restOfPipe, req, wpc, ctx, header, wire, wrapped, logReqID,
                   logs, elapsed, deadline, crashed, trace>>

\* redis.Options of main: a command is tried MaxRetries + 1 times, each try
\* bounded by the dial, write and read timeouts.  Allow runs its pipeline on
\* context.Background(), so nothing else bounds it.
RedisMaxRetries == 3
RedisDialTimeoutSecs == 5
RedisWriteTimeoutSecs == 3
AllowMaxSecs ==
    (RedisMaxRetries + 1)
       * (RedisDialTimeoutSecs + RedisWriteTimeoutSecs + RedisReadTimeoutSecs)

\* Time passes while the business handler runs and while RateLimit waits
\* for Redis, and for at most SchedJitter while a goroutine of the request
\* that can run has not run yet.
PipeTick(d) ==
    /\ ~crashed
    /\ elapsed + d <= MaxClock
    /\ \/ wpc = "handler" /\ gpc \in {"select", "finished"}
       \/ wpc = "RateLimit" /\ gpc \in {"select", "finished"}
             /\ elapsed + d <= AllowMaxSecs
       \/ wpc = "send" /\ gpc = "select"
    /\ (wpc = "send" /\ gpc = "select")
          => elapsed + d <= trace.returnedAt + SchedJitter
    /\ gpc = "select" => elapsed + d <= deadline + SchedJitter
    /\ elapsed' = elapsed + d
    /\ UNCHANGED <<restOfPipe, req, gpc, wpc, ctx, header, wire, wrapped,
                   logReqID, logs, deadline, crashed, delivered, trace>>

PipeTickSteps == {1, WriteTimeoutSecs - 1}

(***************************************************************************)
(* writeJSONError and the 500 of Recovery, character by character          *)
(***************************************************************************)
\* Characters of an X-Request-ID value: a plain one, the quote, the backslash.
IdChars == {"a", "\"", "\\"}

RECURSIVE SeqsUpTo(_)
SeqsUpTo(n) ==
    IF n = 0 THEN {<<>>}
    ELSE LET shorter == SeqsUpTo(n - 1)
         IN shorter \cup {Append(q, c) : q \in {r \in shorter : Len(r) = n - 1},
                                         c \in IdChars}

\* The non-empty header values RequestID takes over unchanged.
HeaderIds == SeqsUpTo(MaxIdLen) \ {<<>>}

\* The rejections of the pipeline: status and message.
Rejections ==
    (401 :> "Invalid token") @@ (408 :> "Request timeout") @@
    (429 :> "Rate limit exceeded") @@ (500 :> "Internal server error")

\* fmt.Sprintf(`..."request_id":"%s"}`, requestID) and the string
\* concatenation of Recovery: the id is copied as it is.
RenderId(id) == id

\* The body from the value of request_id on: the id, the closing quote and
\* the closing brace.  What precedes it, {"success":false,"error":"<message>",
\* "request_id":" is fixed text.
RenderTail(id) == RenderId(id) \o <<"\"", "}">>

\* A JSON decoder reads the string that starts at cs[i]: a quote ends it, a
\* backslash must be followed by a character that can be escaped.
RECURSIVE ReadString(_, _, _)
ReadString(cs, i, acc) ==
    IF i > Len(cs) THEN [ok |-> FALSE, value |-> <<>>, next |-> i]
    ELSE IF cs[i] = "\"" THEN [ok |-> TRUE, value |-> acc, next |-> i + 1]
    ELSE IF cs[i] = "\\"
         THEN IF i + 1 <= Len(cs) /\ cs[i + 1] \in {"\"", "\\"}
              THEN ReadString(cs, i + 2, Append(acc, cs[i + 1]))
              ELSE [ok |-> FALSE, value |-> <<>>, next |-> i]
    ELSE ReadString(cs, i + 1, Append(acc, cs[i]))

\* response.json() of the client: the object is well formed if the string
\* ends and exactly the closing brace follows it.
DecodeTail(cs) ==
    LET r == ReadString(cs, 1, <<>>)
    IN IF r.ok /\ r.next = Len(cs) /\ cs[r.next] = "}"
       THEN [ok |-> TRUE, request_id |-> r.value]
       ELSE [ok |-> FALSE, request_id |-> <<>>]

NotParsed == [ok |-> FALSE, request_id |-> <<>>]

JsonAtRest ==
    /\ jpc = "idle"
    /\ jid = <<>>
    /\ jstatus = 0
    /\ jbody = <<>>
    /\ jparsed = NotParsed

\* RequestID takes the id from the X-Request-ID header of the request.
JsonRequest(id) ==
    /\ jpc = "idle"
    /\ jid' = id
    /\ jpc' = "ready"
    /\ UNCHANGED <<restOfJson, jstatus, jbody, jparsed>>

\* A stage rejects the request: writeJSONError(w, status, message, requestID).
JsonReject(status) ==
    /\ jpc = "ready"
    /\ jstatus' = status
    /\ jbody' = RenderTail(jid)
    /\ jpc' = "written"
    /\ UNCHANGED <<restOfJson, jid, jparsed>>

\* The client decodes the body.
JsonDecode ==
    /\ jpc = "written"
    /\ jparsed' = DecodeTail(jbody)
    /\ jpc' = "decoded"
    /\ UNCHANGED <<restOfJson, jid, jstatus, jbody>>

(***************************************************************************)
(* UserService.Register on the user repository                             *)
(***************************************************************************)
Usernames == {"ann", "bob"}
Emails == {"ann@example.com", "bob@example.com"}
\* Passwords as bcrypt sees them: it refuses more than 72 bytes.
Passwords == {"fits", "too long"}
\* Goroutines that call service.Register.
Callers == {"h1", "h2"}

\* The rows auth.users can hold.
UserRows == [username : Usernames, email : Emails, active : BOOLEAN]

UserExistsMsg == "user with this email or username already exists"

IdleReg == [pc |-> "idle", username |-> "", email |-> "", password |-> "",
            lookup |-> "none", created |-> 0, resp |-> "nil", err |-> "nil"]

\* SELECT ... WHERE (username = $1 OR email = $2) AND is_active = true
GetByEmailOrUsername(rows, email, username) ==
    {u \in rows : (u.username = username \/ u.email = email) /\ u.active}

\* The unique constraints of auth.users on username and on email.
Conflicts(rows, email, username) ==
    {u \in rows : u.username = username \/ u.email = email}

RegisterIgnoresExisting(lookup) == lookup = "error"

\* Register returns before bcrypt and Create if the lookup failed or found
\* a user.
RegisterStops(lookup) == lookup \in {"error", "found"}

RegAtRest ==
    /\ users = {}
    /\ reg = [c \in Callers |-> IdleReg]
    /\ nreg = 0

\* A handler calls Register(ctx, req).
RegisterCall(c, username, email, password) ==
    /\ reg[c].pc = "idle"
    /\ nreg < MaxReqs
    /\ nreg' = nreg + 1
    /\ reg' = [reg EXCEPT ![c] = [IdleReg EXCEPT !.pc = "lookup",
                                    !.username = username, !.email = email,
                                    !.password = password]]
    /\ UNCHANGED <<restOfReg, users>>

\* s.repo.GetByEmailOrUsername and the two tests of its result.
RegisterLookup(c, dbFails) ==
    /\ reg[c].pc = "lookup"
    /\ LET lookup == IF dbFails THEN "error"
                     ELSE IF GetByEmailOrUsername(users, reg[c].email,
                                                  reg[c].username) # {}
                          THEN "found" ELSE "nil"
       IN reg' = [reg EXCEPT ![c].lookup = lookup,
                   ![c].pc = IF RegisterStops(lookup) THEN "returned" ELSE "hash",
                   ![c].err = IF ~RegisterStops(lookup) THEN "nil"
                              ELSE IF lookup = "error" THEN "db error"
                              ELSE UserExistsMsg]
    /\ UNCHANGED <<restOfReg, users, nreg>>

\* bcrypt.GenerateFromPassword
RegisterHash(c) ==
    /\ reg[c].pc = "hash"
    /\ reg' = [reg EXCEPT
          ![c].pc = IF reg[c].password = "fits" THEN "create" ELSE "returned",
          ![c].err = IF reg[c].password = "fits" THEN "nil"
                     ELSE "bcrypt: password length exceeds 72 bytes"]
    /\ UNCHANGED <<restOfReg, users, nreg>>

\* s.repo.Create: the INSERT, refused by the database on a duplicate.
RegisterCreate(c, dbFails) ==
    /\ reg[c].pc = "create"
    /\ LET refused == dbFails
                      \/ Conflicts(users, reg[c].email, reg[c].username) # {}
       IN /\ users' = IF refused THEN users
                      ELSE users \cup {[username |-> reg[c].username,
                                        email |-> reg[c].email, active |-> TRUE]}
          /\ reg' = [reg EXCEPT ![c].pc = "returned",
                                ![c].created = @ + 1,
                                ![c].err = IF refused THEN "db error" ELSE "nil",
                                ![c].resp = IF refused THEN "nil"
                                            ELSE reg[c].username]
    /\ UNCHANGED <<restOfReg, nreg>>

\* The caller has the result; the goroutine serves another request.
RegisterReturn(c) ==
    /\ reg[c].pc = "returned"
    /\ reg' = [reg EXCEPT ![c] = IdleReg]
    /\ UNCHANGED <<restOfReg, users, nreg>>

\* An account is deactivated (is_active = false).
Deactivate(u) ==
    /\ u \in users
    /\ u.active
    /\ users' = (users \ {u}) \cup {[u EXCEPT !.active = FALSE]}
    /\ UNCHANGED <<restOfReg, reg, nreg>>

(***************************************************************************)
(* main while it serves and when it is told to stop                        *)
(***************************************************************************)
\* mux matches a route and wraps the handler in the middlewares: RateLimit
\* builds its limiter from app.Redis, then the request is served.
RequestMatched ==
    /\ mainPc \in {"serving", "sd_tracer", "sd_db", "sd_redis", "sd_http"}
    /\ accepting
    /\ inflight < MaxInflight
    /\ inflight' = inflight + 1
    /\ stratUsed' = stratUsed \cup {ChooseStrategy(appRedis)}
    /\ UNCHANGED <<mainPc, attempts, slept, dbUp, redisUp, appRedis, redisPingOk,
                   accepting, dbClosed, redisClosed, restOfMain>>

\* The handler of a request in flight returns.
RequestDone ==
    /\ mainPc \in {"serving", "sd_tracer", "sd_db", "sd_redis", "sd_http",
                   "sd_wait"}
    /\ inflight > 0
    /\ inflight' = inflight - 1
    /\ UNCHANGED <<mainPc, attempts, slept, dbUp, redisUp, appRedis, redisPingOk,
                   accepting, stratUsed, dbClosed, redisClosed, restOfMain>>

\* case sig := <-quit: gracefulShutdown(srv, app, logger)
Signal ==
    /\ mainPc = "serving"
    /\ mainPc' = "sd_tracer"
    /\ UNCHANGED <<attempts, slept, dbUp, redisUp, appRedis, redisPingOk,
                   accepting, inflight, stratUsed, dbClosed, redisClosed, restOfMain>>

\* srv.SetKeepAlivesEnabled(false); app.TracerProvider.Shutdown(shutdownCtx)
ShutdownTracer ==
    /\ mainPc = "sd_tracer"
    /\ mainPc' = "sd_db"
    /\ UNCHANGED <<attempts, slept, dbUp, redisUp, appRedis, redisPingOk,
                   accepting, inflight, stratUsed, dbClosed, redisClosed, restOfMain>>

\* app.DB.Close()
ShutdownCloseDB ==
    /\ mainPc = "sd_db"
    /\ mainPc' = "sd_redis"
    /\ dbClosed' = TRUE
    /\ UNCHANGED <<attempts, slept, dbUp, redisUp, appRedis, redisPingOk,
                   accepting, inflight, stratUsed, redisClosed, restOfMain>>

\* app.Redis.Close()
ShutdownCloseRedis ==
    /\ mainPc = "sd_redis"
    /\ mainPc' = "sd_http"
    /\ redisClosed' = TRUE
    /\ UNCHANGED <<attempts, slept, dbUp, redisUp, appRedis, redisPingOk,
                   accepting, inflight, stratUsed, dbClosed, restOfMain>>

\* srv.Shutdown(shutdownCtx): the listeners are closed first.
HttpShutdownBegin ==
    /\ mainPc = "sd_http"
    /\ mainPc' = "sd_wait"
    /\ accepting' = FALSE
    /\ UNCHANGED <<attempts, slept, dbUp, redisUp, appRedis, redisPingOk,
                   inflight, stratUsed, dbClosed, redisClosed, restOfMain>>

\* srv.Shutdown returns: every connection is idle, or shutdownCtx (30s) is
\* done; main returns and the process exits.
HttpShutdownEnd ==
    /\ mainPc = "sd_wait"
    /\ mainPc' = "exited"
    /\ UNCHANGED <<attempts, slept, dbUp, redisUp, appRedis, redisPingOk,
                   accepting, inflight, stratUsed, dbClosed, redisClosed, restOfMain>>

(***************************************************************************)
(* getClientIP, character by character                                     *)
(***************************************************************************)
\* Characters of the two header values: part of an address, the space, the
\* comma.
HeaderChars == {"1", " ", ","}

\* The strings of at most n of these characters.
CharSeqs(chars, n) == UNION {[1..k -> chars] : k \in 0..n}

\* Values of X-Forwarded-For and of X-Real-IP; <<>> = the header is absent
\* or empty (Header.Get returns "" for both).
HeaderValues == CharSeqs(HeaderChars, MaxHeaderLen)

\* net.JoinHostPort: a host with a colon is put in brackets.
JoinHostPort(host, port) ==
    IF \E i \in DOMAIN host : host[i] = ":"
    THEN <<"[">> \o host \o <<"]", ":">> \o port
    ELSE host \o <<":">> \o port

\* Hosts and ports of the peer of a TCP connection: IPv4 and IPv6.
PeerHosts == {<<"1">>, <<"1", "1">>, <<":", ":", "1">>, <<"1", ":", ":">>}
PeerPorts == {<<"8">>, <<"8", "8">>}

\* r.RemoteAddr as net/http sets it: host:port of the peer of a TCP
\* connection; a connection that is not TCP has an address without a colon.
RemoteAddrs ==
    {JoinHostPort(h, p) : h \in PeerHosts, p \in PeerPorts}
       \cup {<<>>, <<"@">>, <<"p", "i", "p", "e">>}

\* strings.Index(s, ","): 0 here where Go returns -1.
RECURSIVE IndexFrom(_, _, _)
IndexFrom(cs, c, i) ==
    IF i > Len(cs) THEN 0
    ELSE IF cs[i] = c THEN i ELSE IndexFrom(cs, c, i + 1)

\* strings.LastIndex(s, ":"): 0 here where Go returns -1.
RECURSIVE LastIndexFrom(_, _, _)
LastIndexFrom(cs, c, i) ==
    IF i = 0 THEN 0
    ELSE IF cs[i] = c THEN i ELSE LastIndexFrom(cs, c, i - 1)

\* strings.Split(xff, ",")[0]
FirstSplit(cs) ==
    LET comma == IndexFrom(cs, ",", 1)
    IN IF comma = 0 THEN cs ELSE SubSeq(cs, 1, comma - 1)

RECURSIVE TrimLeft(_)
TrimLeft(cs) ==
    IF cs # <<>> /\ Head(cs) = " " THEN TrimLeft(Tail(cs)) ELSE cs

RECURSIVE TrimRight(_)
TrimRight(cs) ==
    IF cs # <<>> /\ cs[Len(cs)] = " "
    THEN TrimRight(SubSeq(cs, 1, Len(cs) - 1)) ELSE cs

TrimLeftOnly(cs) == TrimLeft(cs)

\* strings.TrimSpace
TrimSpace(cs) == TrimRight(TrimLeft(cs))

\* getClientIP(r)
getClientIP(r) ==
    IF r.xff # <<>> THEN TrimSpace(FirstSplit(r.xff))
    ELSE IF r.xri # <<>> THEN TrimSpace(r.xri)
    ELSE LET colon == LastIndexFrom(r.remoteAddr, ":", Len(r.remoteAddr))
         IN IF colon # 0 THEN SubSeq(r.remoteAddr, 1, colon - 1)
            ELSE r.remoteAddr

NoIpRequest == [xff |-> <<>>, xri |-> <<>>, remoteAddr |-> <<>>]
NoIpResult == [called |-> FALSE, ip |-> <<>>]

IpAtRest ==
    /\ ipReq = NoIpRequest
    /\ ipOut = NoIpResult

\* A request arrives with its headers and the address of its peer.
IpRequest ==
    /\ ipReq = NoIpRequest
    /\ ~ipOut.called
    /\ \E xff \in HeaderValues, xri \in HeaderValues, addr \in RemoteAddrs :
          ipReq' = [xff |-> xff, xri |-> xri, remoteAddr |-> addr]
    /\ UNCHANGED <<restOfIp, ipOut>>

\* Logging or RateLimit calls getClientIP(r).
GetClientIPCall ==
    /\ ~ipOut.called
    /\ ipOut' = [called |-> TRUE, ip |-> getClientIP(ipReq)]
    /\ UNCHANGED <<restOfIp, ipReq>>

\* The store is empty and no request is in RateLimit.
RedisAtRest ==
    /\ now = WindowSecs
    /\ zsets = [k \in Clients |-> {}]
    /\ zexp = [k \in Clients |-> 0]
    /\ conn = [c \in Conns |-> IdleConn]
    /\ nreq = 0
    /\ ticks = 0
    /\ burst = [k \in Clients |-> NoBurst]

\* No MemoryRateLimiter was built yet.
MemAtRest ==
    /\ mclock = 0
    /\ limiters = <<>>
    /\ mreq = 0
    /\ mticks = 0
    /\ mlast = NoMemPass
    /\ mburst = [k \in Clients |-> NoMemBurst]

\* No request is in the middleware chain.
PipeAtRest ==
    /\ req = NoRequest
    /\ gpc = "idle"
    /\ wpc = "none"
    /\ ctx = [k \in CtxKeys |-> ""]
    /\ header = NoHeader
    /\ wire = NoWire
    /\ wrapped = [statusCode |-> 0, size |-> 0]
    /\ logReqID = ""
    /\ logs = <<>>
    /\ elapsed = 0
    /\ deadline = 0
    /\ crashed = FALSE
    /\ delivered = NothingDelivered
    /\ trace = NoTrace

Init ==
    /\ mainPc = "db_connect"
    /\ attempts = 0
    /\ slept = 0
    /\ dbUp \in BOOLEAN
    /\ redisUp \in BOOLEAN
    /\ appRedis = "nil"
    /\ redisPingOk = FALSE
    /\ accepting = FALSE
    /\ inflight = 0
    /\ stratUsed = {}
    /\ dbClosed = FALSE
    /\ redisClosed = FALSE
    /\ RedisAtRest
    /\ MemAtRest
    /\ PipeAtRest
    /\ JsonAtRest
    /\ RegAtRest
    /\ IpAtRest

Next ==
    \/ DbConnect
    \/ RedisPing
    \/ RouterSetup
    \/ DbDown
    \/ DbBack
    \/ RedisDown
    \/ RedisBack
    \/ RequestMatched
    \/ RequestDone
    \/ Signal
    \/ ShutdownTracer
    \/ ShutdownCloseDB
    \/ ShutdownCloseRedis
    \/ HttpShutdownBegin
    \/ HttpShutdownEnd

\* main, from process start to exit.
Spec == Init /\ [][Next]_vars

(***************************************************************************)
(* The Redis limiter while the process serves                              *)
(***************************************************************************)
\* main has reached ListenAndServe with app.Redis set (see Spec).
InitRedis ==
    /\ mainPc = "serving"
    /\ attempts = 0
    /\ slept = 0
    /\ dbUp = TRUE
    /\ redisUp \in BOOLEAN
    /\ appRedis = "client"
    /\ redisPingOk = redisUp
    /\ accepting = TRUE
    /\ inflight = 0
    /\ stratUsed = {}
    /\ dbClosed = FALSE
    /\ redisClosed = FALSE
    /\ RedisAtRest
    /\ MemAtRest
    /\ PipeAtRest
    /\ JsonAtRest
    /\ RegAtRest
    /\ IpAtRest

NextRedis ==
    \/ RedisDown
    \/ RedisBack
    \/ \E c \in Conns, ip \in Clients : RateLimitEnter(c, ip)
    \/ \E c \in Conns : PipeFail(c)
    \/ \E c \in Conns : PipeZRem(c)
    \/ \E c \in Conns : PipeZCard(c)
    \/ \E c \in Conns : PipeZAdd(c)
    \/ \E c \in Conns : PipeExpire(c)
    \/ \E c \in Conns : AllowReturn(c)
    \/ \E c \in Conns : RateLimitLeave(c)
    \/ \E d \in TickSteps : Tick(d)

SpecRedis == InitRedis /\ [][NextRedis]_vars

(***************************************************************************)
(* The in-memory limiter: an Application built without a Redis client      *)
(***************************************************************************)
\* router.Setup(app) with app.Redis == nil, the case RateLimit falls back
\* to the in-memory limiter for.
InitMem ==
    /\ mainPc = "serving"
    /\ attempts = 0
    /\ slept = 0
    /\ dbUp = TRUE
    /\ redisUp = FALSE
    /\ appRedis = "nil"
    /\ redisPingOk = FALSE
    /\ accepting = TRUE
    /\ inflight = 0
    /\ stratUsed = {}
    /\ dbClosed = FALSE
    /\ redisClosed = FALSE
    /\ RedisAtRest
    /\ MemAtRest
    /\ PipeAtRest
    /\ JsonAtRest
    /\ RegAtRest
    /\ IpAtRest

NextMem ==
    \/ \E ip \in Clients : MemRateLimit(ip)
    \/ \E i \in 1..MaxReqs : CleanupVisitors(i)
    \/ \E d \in MemTickSteps : MemTick(d)

SpecMem == InitMem /\ [][NextMem]_vars

\* The sweep goroutine of every instance loops for the life of the process:
\* "for { time.Sleep(time.Minute); ... }", so a sweep that is due is run.
SpecMemLive ==
    SpecMem /\ \A i \in 1..MaxReqs : WF_vars(CleanupVisitors(i))


(***************************************************************************)
(* One request in the middleware chain while the process serves            *)
(***************************************************************************)
InitPipe ==
    /\ mainPc = "serving"
    /\ attempts = 0
    /\ slept = 0
    /\ dbUp = TRUE
    /\ redisUp = TRUE
    /\ appRedis = "client"
    /\ redisPingOk = TRUE
    /\ accepting = TRUE
    /\ inflight = 0
    /\ stratUsed = {}
    /\ dbClosed = FALSE
    /\ redisClosed = FALSE
    /\ RedisAtRest
    /\ MemAtRest
    /\ PipeAtRest
    /\ JsonAtRest
    /\ RegAtRest
    /\ IpAtRest

NextPipe ==
    \/ \E id \in ClientIds, prot \in BOOLEAN : ServeHTTP(id, prot)
    \/ RequestID
    \/ Recovery
    \/ Logging
    \/ Security
    \/ Timeout
    \/ RateLimitCall
    \/ \E allowed \in BOOLEAN : RateLimitStage(allowed)
    \/ \E cred \in Credentials : JWT(cred)
    \/ \E code \in HandlerCodes : HandlerRespond(code)
    \/ HandlerReturn
    \/ HandlerPanic
    \/ SelectDone
    \/ SelectTimeout
    \/ LoggingPost
    \/ FinishRequest
    \/ \E d \in PipeTickSteps : PipeTick(d)

SpecPipe == InitPipe /\ [][NextPipe]_vars

(***************************************************************************)
(* The bodies of the rejections, for the X-Request-ID values of a client   *)
(***************************************************************************)
InitJson ==
    /\ mainPc = "serving"
    /\ attempts = 0
    /\ slept = 0
    /\ dbUp = TRUE
    /\ redisUp = TRUE
    /\ appRedis = "client"
    /\ redisPingOk = TRUE
    /\ accepting = TRUE
    /\ inflight = 0
    /\ stratUsed = {}
    /\ dbClosed = FALSE
    /\ redisClosed = FALSE
    /\ RedisAtRest
    /\ MemAtRest
    /\ PipeAtRest
    /\ JsonAtRest
    /\ RegAtRest
    /\ IpAtRest

NextJson ==
    \/ \E id \in HeaderIds : JsonRequest(id)
    \/ \E status \in DOMAIN Rejections : JsonReject(status)
    \/ JsonDecode

SpecJson == InitJson /\ [][NextJson]_vars

(***************************************************************************)
(* Registrations while the process serves                                  *)
(***************************************************************************)
InitReg ==
    /\ mainPc = "serving"
    /\ attempts = 0
    /\ slept = 0
    /\ dbUp = TRUE
    /\ redisUp = TRUE
    /\ appRedis = "client"
    /\ redisPingOk = TRUE
    /\ accepting = TRUE
    /\ inflight = 0
    /\ stratUsed = {}
    /\ dbClosed = FALSE
    /\ redisClosed = FALSE
    /\ RedisAtRest
    /\ MemAtRest
    /\ PipeAtRest
    /\ JsonAtRest
    /\ RegAtRest
    /\ IpAtRest

NextReg ==
    \/ \E c \in Callers, u \in Usernames, e \in Emails, p \in Passwords :
          RegisterCall(c, u, e, p)
    \/ \E c \in Callers, dbFails \in BOOLEAN : RegisterLookup(c, dbFails)
    \/ \E c \in Callers : RegisterHash(c)
    \/ \E c \in Callers, dbFails \in BOOLEAN : RegisterCreate(c, dbFails)
    \/ \E c \in Callers : RegisterReturn(c)
    \/ \E u \in UserRows : Deactivate(u)

SpecReg == InitReg /\ [][NextReg]_vars

(***************************************************************************)
(* Claims about the limiter strategies                                     *)
(***************************************************************************)
Done(c) == conn[c].pc = "done"

\* C2: with limit L, L requests of one client arriving at the same instant on
\* an empty window are all admitted and the (L+1)-th request of that instant
\* is rejected.  Stated for requests served one after the other, the store
\* answering every time.
C2_BurstAdmitsExactlyLimit ==
    \A c \in Conns :
        (Done(c) /\ conn[c].solo /\ ticks = 0 /\ conn[c].nth > 0
                 /\ burst[conn[c].ip].errs = 0)
            => (conn[c].allowed <=> conn[c].nth <= RateLimit)

\* C3: when the store operation succeeds, Allow admits exactly when the number
\* of entries left in the client's window after pruning, before the request's
\* own entry is added, is at most the configured limit.
C3_AdmitIffWindowCountWithinLimit ==
    \A c \in Conns :
        (Done(c) /\ ~conn[c].err)
            => /\ conn[c].allowed <=> conn[c].pre <= RateLimit
               /\ conn[c].next <=> conn[c].allowed
               /\ conn[c].status = (IF conn[c].allowed THEN 0 ELSE 429)

\* A request was rejected with 429 on a store that answered.
C3_Witness ==
    \E c \in Conns :
        Done(c) /\ ~conn[c].err /\ ~conn[c].allowed /\ conn[c].status = 429
                /\ conn[c].pre = RateLimit + 1

\* C4: when the store pipeline returns an error, Allow returns true, the
\* warning is logged and the request goes on to the next stage: it is not
\* answered with 429 or 500 by the limiter.
C4_FailOpen ==
    \A c \in Conns :
        (Done(c) /\ conn[c].err)
            => /\ conn[c].allowed
               /\ conn[c].next
               /\ conn[c].status \notin {429, 500}
               /\ conn[c].log = "Redis rate limiter failed, allowing request"

\* A request passed the limiter although the pipeline failed after the
\* window already held more entries than the limit.
C4_Witness ==
    \E c \in Conns :
        Done(c) /\ conn[c].err /\ ~redisUp
                /\ ZCard(zsets[conn[c].ip]) > RateLimit

\* C5: the four store commands of one Allow call take effect as one atomic
\* operation: no command of another call for the same client runs between
\* them, so two calls never both see the same window.
MidPipeline(c) == conn[c].pc \in {"zcard", "zadd", "expire"}

C5_PipelineIsAtomic ==
    \A c1, c2 \in Conns :
        (c1 # c2 /\ conn[c1].ip = conn[c2].ip)
            => ~(MidPipeline(c1) /\ MidPipeline(c2))

\* C6: the limiter strategy follows the reachability of the store found at
\* start-up: the Redis limiter if the store was reachable, the in-memory
\* limiter if it was not, and it stays the same for every request.
C6_StrategyFollowsReachability ==
    \A st \in stratUsed :
        st = (IF redisPingOk THEN "redis" ELSE "memory")

PastSelect == {"LoggingPost", "finish", "finished"}

\* C1: when the business handler (or any stage downstream of Recovery) panics,
\* the pipeline writes exactly one 500 envelope carrying the correlation id
\* and the panic does not escape: the process goes on.
C1_PanicYieldsOne500 ==
    trace.faulted =>
        /\ ~crashed
        /\ wire.status = 500
        /\ Cardinality({i \in DOMAIN wire.body :
               wire.body[i] = Envelope("Internal server error", trace.assigned)}) = 1

\* C8: when downstream is still running as the deadline of the guard elapses,
\* the client receives the 408 envelope with the correlation id, and the
\* guard writes that reply exactly once.
C8_TimeoutReplyReachesClient ==
    (gpc = "finished" /\ trace.guardWrites > 0 /\ ~trace.downstreamDone) =>
        /\ trace.guardWrites = 1
        /\ delivered = [received |-> TRUE, status |-> 408,
                        body |-> <<Envelope("Request timeout", trace.assigned)>>,
                        xRequestID |-> trace.assigned]

\* C9: when downstream returns before the deadline elapses the guard writes
\* nothing: the response is what downstream wrote, however the select of the
\* guard is scheduled.
C9_DownstreamFirstPassesThrough ==
    (gpc \in PastSelect /\ trace.returnedAt >= 0 /\ trace.returnedAt < deadline) =>
        /\ trace.guardWrites = 0
        /\ wire = trace.wireAtReturn
        /\ delivered.received =>
              /\ delivered.body = trace.wireAtReturn.body
              /\ delivered.status = (IF trace.wireAtReturn.status = 0 THEN 200
                                     ELSE trace.wireAtReturn.status)

JwtRan == trace.verdict # "none"
Presented == trace.cred.cookie
Parsed == Presented.present /\ ~Presented.malformed
HmacFamily == {"HS256", "HS384", "HS512"}
\* JWT passed one 401 with this message to writeJSONError, and it is the
\* response on the writer unless Timeout has written its 408 to it as well.
Rejected401(message) ==
    /\ {r \in trace.replies : r.by = "JWT"}
          = {[by |-> "JWT", status |-> 401, error |-> message,
              request_id |-> trace.assigned]}
    /\ trace.guardWrites = 0 =>
          /\ wire.status = 401
          /\ wire.body = <<Envelope(message, trace.assigned)>>

\* C11: a token whose expiresAt is in the past is rejected as expired (401
\* 'Token has expired') whatever the state of its signature.
C11_ExpiredRejectedAsExpired ==
    (JwtRan /\ Parsed /\ Presented.hasExp /\ Presented.exp < StartTime) =>
        /\ trace.verdict = "expired"
        /\ Rejected401("Token has expired")

\* C12: a token signed with another secret than the application secret, or
\* with a signing method outside the HMAC family, is rejected with 401
\* 'Invalid token' and the next stage is not called.
C12_ForeignSignatureRejected ==
    (JwtRan /\ Parsed
       /\ (Presented.key # AppSecret \/ Presented.alg \notin HmacFamily)) =>
        /\ trace.verdict = "invalid"
        /\ Rejected401("Invalid token")
        /\ ~trace.handlerEntered
        /\ wpc # "handler"

\* A token signed with another secret was rejected and the 401 delivered.
C12_Witness ==
    /\ gpc = "finished"
    /\ Parsed
    /\ Presented.alg = "HS256"
    /\ Presented.key # AppSecret
    /\ delivered.received
    /\ delivered.status = 401

\* C13: every token JWT accepts carries an expiresAt later than the
\* verification time; a token without expiry is never accepted.
C13_AcceptedTokensExpireLater ==
    (JwtRan /\ trace.verdict = "ok") =>
        /\ Presented.hasExp
        /\ Presented.exp > StartTime

\* C14: the handler of a protected route runs only after JWT has verified a
\* token of the same request and put its subject in the context; on every
\* failure JWT writes exactly one 401 with one reason and does not call next.
C14_HandlerOnlyBehindVerifiedToken ==
    req.protected =>
        /\ (wpc = "handler" \/ trace.handlerEntered) =>
              /\ trace.verdict = "ok"
              /\ Parsed
              /\ Presented.alg \in HmacFamily
              /\ Presented.key = AppSecret
              /\ ctx[UserIDKey] = Presented.sub
        /\ trace.verdict \in {"missing", "expired", "invalid"} =>
              /\ ~trace.handlerEntered
              /\ wpc # "handler"
              /\ ctx[UserIDKey] = ""
              /\ Rejected401(JwtMessage(trace.verdict))

\* The handler of a protected route answered a request with a verified token.
C14_Witness ==
    /\ gpc = "finished"
    /\ req.protected
    /\ trace.handlerEntered
    /\ trace.handlerWrote
    /\ ctx[UserIDKey] = "user-1"
    /\ delivered.received

\* C15: a request to a protected route with a valid token in the header
\* 'Authorization: Bearer <token>' is authenticated, and one without
\* credentials is rejected with the message 'Authorization header required'.
C15_BearerHeaderAuthenticates ==
    JwtRan =>
        /\ trace.cred.bearer = GoodToken => trace.verdict = "ok"
        /\ trace.cred = NoCred => Rejected401("Authorization header required")

(***************************************************************************)
(* Claims about Security                                                   *)
(***************************************************************************)
\* C16: past Security the response carries the same fixed header names and
\* values whatever the request, running Security again changes nothing, and
\* the headers are there when a rejection (401, 408, 429) or a success is
\* written downstream.
C16_SecurityHeadersFixed ==
    gpc \notin {"idle", "RequestID", "Recovery", "Logging", "Security"} =>
        /\ \A n \in DOMAIN SecurityHeaders :
              header.security[n] = <<SecurityHeaders[n]>>
        /\ SetSecurityHeaders(header.security) = header.security
        /\ wire.status # 0 => \A n \in DOMAIN SecurityHeaders :
                                  Len(header.security[n]) = 1

\* A 429 was written downstream of Security.
C16_Witness ==
    /\ gpc = "finished"
    /\ wire.status = 429
    /\ delivered.received
    /\ header.security["X-Frame-Options"] = <<"DENY">>

(***************************************************************************)
(* Claims about the bodies of the rejections                               *)
(***************************************************************************)
\* C17: the body of every rejection (401, 408, 429, 500) is one well-formed
\* JSON object whose request_id is the correlation id of the request, for
\* every X-Request-ID value a client can send.
C17_RejectionBodyIsWellFormed ==
    jpc = "decoded" =>
        /\ jparsed.ok
        /\ jparsed.request_id = jid

(***************************************************************************)
(* Claims about UserService.Register                                       *)
(***************************************************************************)
\* C18: Register calls repo.Create only when GetByEmailOrUsername reported no
\* user and no error; when it reported a user, Register returns the error
\* 'user with this email or username already exists' with no response and
\* never calls Create.
C18_CreateOnlyWhenNoExistingUser ==
    \A c \in Callers :
        /\ (reg[c].pc = "create" \/ reg[c].created > 0) => reg[c].lookup = "nil"
        /\ (reg[c].pc = "returned" /\ reg[c].lookup = "found") =>
              /\ reg[c].err = UserExistsMsg
              /\ reg[c].resp = "nil"
              /\ reg[c].created = 0

\* A registration for a name that is taken has returned.
C18_Witness ==
    \E c \in Callers :
        /\ reg[c].pc = "returned"
        /\ reg[c].lookup = "found"
        /\ reg[c].err = UserExistsMsg

(***************************************************************************)
(* Claims about the shutdown of main                                       *)
(***************************************************************************)
\* C19: on SIGINT or SIGTERM the server stops accepting requests and the
\* requests in flight finish before the database pool and the Redis client
\* are closed and before the process exits.
C19_DrainBeforeClose ==
    /\ (dbClosed \/ redisClosed) => (~accepting /\ inflight = 0)
    /\ mainPc = "exited" => (~accepting /\ dbClosed /\ redisClosed)

\* The order router.Setup gives the stages of a public and of a protected
\* route.
PublicOrder ==
    <<"RequestID", "Recovery", "Logging", "Security", "Timeout", "RateLimit",
      "handler">>

ProtectedOrder ==
    <<"RequestID", "Recovery", "Logging", "Security", "Timeout", "RateLimit",
      "JWT", "handler">>

StageOrder == IF req.protected THEN ProtectedOrder ELSE PublicOrder

RejectedBy == {r.by : r \in trace.replies}

IsPrefix(p, q) == Len(p) <= Len(q) /\ \A i \in 1..Len(p) : p[i] = q[i]

\* C20 as stated: the stages of a request are entered in the fixed order
\* RequestID, Recovery, Logging, Security, Timeout, RateLimit, JWT (protected
\* routes only), handler, and no stage is entered after a stage has rejected
\* the request.
C20_OrderedAndNoStageAfterRejection ==
    /\ IsPrefix(trace.entered, StageOrder)
    /\ trace.enteredAfter = {}

\* C20, amended: the stages of a request are entered in the fixed order, and
\* a request rejected by RateLimit or by JWT enters no later stage; the 408
\* of Timeout alone does not keep the worker goroutine from entering JWT
\* and the handler.
C20_OrderedAndShortCircuit ==
    /\ IsPrefix(trace.entered, StageOrder)
    /\ \A pair \in trace.enteredAfter : pair[1] = "Timeout"
    /\ "RateLimit" \in RejectedBy =>
          /\ "JWT" \notin {trace.entered[i] : i \in 1..Len(trace.entered)}
          /\ ~trace.handlerEntered
    /\ "JWT" \in RejectedBy => ~trace.handlerEntered

\* A protected request was taken through the stages in order up to JWT,
\* JWT rejected it, and the worker goroutine ended without the handler.
C20_Witness ==
    /\ wpc = "exited"
    /\ RejectedBy = {"JWT"}
    /\ trace.entered = SubSeq(ProtectedOrder, 1, Len(ProtectedOrder) - 1)
    /\ ~trace.handlerEntered

\* C21: Timeout does not stop downstream on timeout: once the guard has
\* written the 408 and returned, a handler that has neither answered nor
\* returned yet is still running and can write to the same writer.
C21_DownstreamRunsOnAfterTimeout ==
    (trace.guardWrites > 0 /\ trace.guardAt >= 0 /\ ~trace.downstreamDone
       /\ trace.handlerEntered /\ ~trace.handlerWrote
       /\ trace.returnedAt = -1 /\ ~crashed) =>
        /\ wpc = "handler"
        /\ ENABLED (\E code \in HandlerCodes : HandlerRespond(code))

\* The guard replied 408 first and the handler wrote its response after it
\* on the same writer.
C21_Witness ==
    /\ trace.guardWrites = 1
    /\ trace.handlerWrote
    /\ wire.status = 408
    /\ Len(wire.body) = 2
    /\ wire.body[1] = Envelope("Request timeout", trace.assigned)
    /\ wire.body[2] = HandlerBody

\* C22: for a request that passed RequestID, every reader of the
\* correlation id in the request context, middleware.getRequestID and
\* handlers.getRequestID alike, obtains the id RequestID stored and never
\* the fallback "unknown": every log record of the request carries that id.
C22_EveryReaderGetsTheStoredID ==
    trace.assigned # "" =>
        /\ getRequestID(ctx) = trace.assigned
        /\ trace.handlerEntered => handlersGetRequestID(ctx) = trace.assigned
        /\ \A i \in DOMAIN logs : logs[i].request_id = trace.assigned

\* The access-log records of the request.
AccessLines == {i \in DOMAIN logs : logs[i].msg = AccessLogMsg}

\* C23: every request that entered Logging gets exactly one access-log
\* record once what runs after Logging has ended, whether it ended with a
\* response of the handler, a rejection, a timeout reply or a panic.
C23_OneAccessLinePerRequest ==
    /\ Cardinality(AccessLines) <= 1
    /\ ("Logging" \in {trace.entered[i] : i \in DOMAIN trace.entered}
          /\ (gpc \in {"finish", "finished"} \/ trace.faulted))
         => Cardinality(AccessLines) = 1

\* C24: the access-log record has level info when the final status is below
\* 400 (200 when nothing downstream set a status), warn for 400 to 499 and
\* error for 500 and above.
C24_LevelFollowsStatus ==
    \A i \in AccessLines :
        /\ (~trace.handlerWrote /\ trace.replies = {}) => logs[i].status = 200
        /\ logs[i].status < 400 => logs[i].level = "info"
        /\ logs[i].status \in 400..499 => logs[i].level = "warn"
        /\ logs[i].status >= 500 => logs[i].level = "error"

\* A handler answered 500 and the access-log record of the request is at
\* error level.
C24_Witness ==
    /\ gpc = "finished"
    /\ \E i \in AccessLines : logs[i].status = 500 /\ logs[i].level = "error"

(***************************************************************************)
(* getClientIP on every request                                            *)
(***************************************************************************)
InitIp ==
    /\ mainPc = "serving"
    /\ attempts = 0
    /\ slept = 0
    /\ dbUp = TRUE
    /\ redisUp = TRUE
    /\ appRedis = "client"
    /\ redisPingOk = TRUE
    /\ accepting = TRUE
    /\ inflight = 0
    /\ stratUsed = {}
    /\ dbClosed = FALSE
    /\ redisClosed = FALSE
    /\ RedisAtRest
    /\ MemAtRest
    /\ PipeAtRest
    /\ JsonAtRest
    /\ RegAtRest
    /\ IpAtRest

NextIp ==
    \/ IpRequest
    \/ GetClientIPCall

SpecIp == InitIp /\ [][NextIp]_vars

\* s without the spaces at its two ends is t.
IsTrimmed(t, s) ==
    /\ \E a \in 0..Len(s) :
          /\ a + Len(t) <= Len(s)
          /\ t = SubSeq(s, a + 1, a + Len(t))
          /\ \A i \in 1..Len(s) : (i <= a \/ i > a + Len(t)) => s[i] = " "
    /\ t # <<>> => (t[1] # " " /\ t[Len(t)] # " ")

\* e is what s holds before its first comma.
IsFirstEntry(e, s) ==
    /\ Len(e) <= Len(s)
    /\ e = SubSeq(s, 1, Len(e))
    /\ \A i \in 1..Len(e) : e[i] # ","
    /\ Len(e) < Len(s) => s[Len(e) + 1] = ","

\* addr is host, a colon and a port of digits.
IsHostAndPort(host, addr) ==
    \E p \in PeerPorts : addr = host \o <<":">> \o p

\* C25: getClientIP returns the trimmed first comma-separated entry of
\* X-Forwarded-For if that header is not empty, else the trimmed X-Real-IP
\* if that is not empty, else RemoteAddr without its port suffix, and
\* RemoteAddr as it is if it has no port suffix.
C25_ClientIPPrecedence ==
    ipOut.called =>
        /\ ipReq.xff # <<>> =>
              \E e \in HeaderValues : /\ IsFirstEntry(e, ipReq.xff)
                                      /\ IsTrimmed(ipOut.ip, e)
        /\ (ipReq.xff = <<>> /\ ipReq.xri # <<>>) =>
              IsTrimmed(ipOut.ip, ipReq.xri)
        /\ (ipReq.xff = <<>> /\ ipReq.xri = <<>>) =>
              IF \E i \in DOMAIN ipReq.remoteAddr : ipReq.remoteAddr[i] = ":"
              THEN IsHostAndPort(ipOut.ip, ipReq.remoteAddr)
              ELSE ipOut.ip = ipReq.remoteAddr

\* X-Forwarded-For with a space before its first entry and a second entry
\* after it: the first entry was returned without the space.
C25_Witness ==
    /\ ipOut.called
    /\ ipReq.xff = <<" ", "1", ",">>
    /\ ipOut.ip = <<"1">>

\* The visitor of client k in instance i is there and was last seen more
\* than 15 minutes ago.
OverIdle(i, k) ==
    /\ i <= Len(limiters)
    /\ limiters[i].visitors[k].present
    /\ mclock - limiters[i].visitors[k].lastSeen > IdleSecs

C27_WorkerNeverStuckOnDone ==
    (wpc = "send" /\ ~crashed) => gpc = "select"

\* C28: the status in the access-log record is the status sent to the
\* client, the code of the first WriteHeader that reached the underlying
\* writer or 200 if there was none, also when Timeout calls WriteHeader
\* after downstream has written a header.
C28_LoggedStatusIsSentStatus ==
    gpc = "finished" =>
        \A i \in AccessLines :
            logs[i].status = (IF wire.status = 0 THEN 200 ELSE wire.status)

C30_FatalWhenRedisNeverAnswers ==
    /\ attempts <= RedisAttempts
    /\ mainPc \in {"setup", "serving"} => redisPingOk

====
